---- MODULE Spec2Model ----
(***************************************************************************)
(* Model of patent_database/operations.py: the operation dispatcher        *)
(* (run_operation), the search and export handlers, the connection test,   *)
(* the payload builder (build_search_payload) and the HTTP retry client    *)
(* (make_api_request).                                                     *)
(*                                                                         *)
(* Python values are modelled as follows.                                  *)
(*   str    a sequence of one-character strings, <<"a", ":", "b">>         *)
(*   None   the token None (never equal to a str the model builds)         *)
(*   dict   a function whose DOMAIN is the set of keys that are present    *)
(*   list   a sequence                                                     *)
(*   a value handed to int() is [int |-> n] or [str |-> s]                 *)
(*   a call's outcome is [kind |-> "return", value |-> v] or               *)
(*   [kind |-> "raise", exc |-> type]                                      *)
(***************************************************************************)
EXTENDS Integers, Sequences, FiniteSets, TLC

(***************************************************************************)
(* Bounds of the model.                                                    *)
(***************************************************************************)
\* largest max_retries a direct caller of make_api_request passes
MaxRetriesBound == 3
\* largest page and limit a caller passes
MaxPage == 2
\* longest list of boolean terms a caller passes
MaxTerms == 2

(***************************************************************************)
(* Strings.                                                                *)
(***************************************************************************)
None == <<"None">>
EmptyStr == << >>
STAR == <<"*">>
COLON == <<":">>
SPACE == <<" ">>
AND == <<"A", "N", "D">>
NOT == <<"N", "O", "T">>
NoneText == <<"N", "o", "n", "e">>
INVENTION_TITLE ==
    <<"i","n","v","e","n","t","i","o","n","T","i","t","l","e">>
FILING_DATE ==
    <<"a","p","p","l","i","c","a","t","i","o","n","M","e","t","a","D","a","t","a",
      ".","f","i","l","i","n","g","D","a","t","e">>

\* {}
EmptyDict == [x \in {} |-> x]

\* dict.get(k, default)
Get(d, k, default) == IF k \in DOMAIN d THEN d[k] ELSE default

\* Python truth value of a str-or-None
Truthy(v) == v # None /\ v # EmptyStr

\* f"{v}" of a str-or-None
Format(v) == IF v = None THEN NoneText ELSE v

Lower == <<"a","b","c","d","e","f","g","h","i","j","k","l","m",
           "n","o","p","q","r","s","t","u","v","w","x","y","z">>
Upper == <<"A","B","C","D","E","F","G","H","I","J","K","L","M",
           "N","O","P","Q","R","S","T","U","V","W","X","Y","Z">>

UpperChar(c) ==
    IF \E i \in 1..Len(Lower) : Lower[i] = c
    THEN Upper[CHOOSE i \in 1..Len(Lower) : Lower[i] = c]
    ELSE c

\* str.upper()
ToUpper(s) == [i \in 1..Len(s) |-> UpperChar(s[i])]

RECURSIVE Join(_, _)
\* sep.join(pieces)
Join(sep, pieces) ==
    IF Len(pieces) = 0 THEN EmptyStr
    ELSE IF Len(pieces) = 1 THEN pieces[1]
    ELSE pieces[1] \o sep \o Join(sep, Tail(pieces))

Digits == <<"0","1","2","3","4","5","6","7","8","9">>
IsDigit(c) == \E i \in 1..Len(Digits) : Digits[i] = c
DigitVal(c) == (CHOOSE i \in 1..Len(Digits) : Digits[i] = c) - 1

RECURSIVE DigitsVal(_)
DigitsVal(s) ==
    IF Len(s) = 0 THEN 0
    ELSE DigitsVal(SubSeq(s, 1, Len(s) - 1)) * 10 + DigitVal(s[Len(s)])

\* int(s) of a str: an optional sign and one or more decimal digits;
\* anything else raises ValueError
ParseInt(s) ==
    LET signed == Len(s) > 0 /\ s[1] \in {"-", "+"}
        body == IF signed THEN Tail(s) ELSE s
    IN  IF Len(body) > 0 /\ \A i \in 1..Len(body) : IsDigit(body[i])
        THEN [ok |-> TRUE,
              n |-> IF signed /\ s[1] = "-" THEN 0 - DigitsVal(body)
                    ELSE DigitsVal(body)]
        ELSE [ok |-> FALSE]

\* int(v) of an int or a str
IntOf(v) ==
    IF "int" \in DOMAIN v THEN [ok |-> TRUE, n |-> v.int] ELSE ParseInt(v.str)

Min(a, b) == IF a < b THEN a ELSE b

Return(v) == [kind |-> "return", value |-> v]
Raise(e) == [kind |-> "raise", exc |-> e]

(***************************************************************************)
(* Values imported from constants.py.                                      *)
(***************************************************************************)
SEARCH_TYPES ==
    {"simple", "boolean", "wildcard", "field_specific", "range", "filtered",
     "faceted"}
MAX_RESULTS_PER_PAGE == 100
DEFAULT_SORT_FIELD == "DEFAULT_SORT_FIELD"

(***************************************************************************)
(* build_search_payload                                                    *)
(***************************************************************************)
\* d[k] = v on a dict
SetKey(d, k, v) == [x \in DOMAIN d \cup {k} |-> IF x = k THEN v ELSE d[x]]

\* page, limit, offset and the pagination object
\* mutant: the offset counts the requested page as already consumed
Pagination_PageTimesLimit(params) ==
    LET page == IntOf(Get(params, "page", [int |-> 1]))
        limit == IntOf(Get(params, "limit", [int |-> MAX_RESULTS_PER_PAGE]))
    IN  IF page.ok /\ limit.ok
        THEN Return([offset |-> page.n * limit.n, limit |-> limit.n])
        ELSE Raise("ValueError")

Pagination(params) ==
    LET page == IntOf(Get(params, "page", [int |-> 1]))
        limit == IntOf(Get(params, "limit", [int |-> MAX_RESULTS_PER_PAGE]))
    IN  IF page.ok /\ limit.ok
        THEN Return([offset |-> (page.n - 1) * limit.n, limit |-> limit.n])
        ELSE Raise("ValueError")

SortOf(params) ==
    << [field |-> Get(params, "sort_field", DEFAULT_SORT_FIELD),
        direction |-> Get(params, "sort_order", "desc")] >>

DefaultFields ==
    <<"inventionTitle", "applicationNumberText", "applicationMetaData",
      "inventorNameText">>

UtilityFilter ==
    [name |-> "applicationMetaData.applicationTypeLabelName",
     value |-> <<"Utility">>]

\* step 4: the query term before the type-specific handling
InitialQ(search_type, query_params) ==
    IF search_type = "simple" THEN Get(query_params, "term", EmptyStr)
    ELSE STAR

\* step 5: the filing-date entry, when dateFrom and dateTo are both truthy
\* mutant: one date bound is enough for the filing-date entry
WithDateRange_EitherBound(payload, query_params) ==
    LET date_from == Get(query_params, "dateFrom", EmptyStr)
        date_to == Get(query_params, "dateTo", EmptyStr)
    IN  IF Truthy(date_from) \/ Truthy(date_to)
        THEN SetKey(payload, "rangeFilters",
                    << [field |-> FILING_DATE, valueFrom |-> date_from,
                        valueTo |-> date_to] >>)
        ELSE payload

WithDateRange(payload, query_params) ==
    LET date_from == Get(query_params, "dateFrom", EmptyStr)
        date_to == Get(query_params, "dateTo", EmptyStr)
    IN  IF Truthy(date_from) /\ Truthy(date_to)
        THEN SetKey(payload, "rangeFilters",
                    << [field |-> FILING_DATE, valueFrom |-> date_from,
                        valueTo |-> date_to] >>)
        ELSE payload

\* mutant: the operator is compared and emitted as the caller wrote it
TermPieces_NoUpper(term, i) ==
    IF Truthy(Get(term, "field", None)) /\ Truthy(Get(term, "value", None))
    THEN IF i = 0 \/ Get(term, "operator", None) = None
         THEN << term.field \o COLON \o term.value >>
         ELSE LET operator == Get(term, "operator", AND)
              IN  IF operator = NOT
                  THEN << NOT \o SPACE \o term.field \o COLON \o term.value >>
                  ELSE << operator \o SPACE \o term.field \o COLON \o term.value >>
    ELSE << >>

\* the pieces one boolean term adds to query_terms; i is its enumerate() index
TermPieces(term, i) ==
    IF Truthy(Get(term, "field", None)) /\ Truthy(Get(term, "value", None))
    THEN IF i = 0 \/ Get(term, "operator", None) = None
         THEN << term.field \o COLON \o term.value >>
         ELSE LET operator == ToUpper(Get(term, "operator", AND))
              IN  IF operator = NOT
                  THEN << NOT \o SPACE \o term.field \o COLON \o term.value >>
                  ELSE << operator \o SPACE \o term.field \o COLON \o term.value >>
    ELSE << >>

RECURSIVE QueryTerms(_, _)
\* query_terms built from terms[i+1..], i the 0-based index of the next term
QueryTerms(terms, i) ==
    IF i >= Len(terms) THEN << >>
    ELSE TermPieces(terms[i + 1].dict, i) \o QueryTerms(terms, i + 1)

\* a term that is not a dict has no .get
AllDicts(terms) == \A i \in 1..Len(terms) : "dict" \in DOMAIN terms[i]

BooleanQ(query_params) ==
    LET joined == Join(SPACE, QueryTerms(Get(query_params, "terms", << >>), 0))
    IN  IF joined # EmptyStr THEN joined ELSE STAR

WildcardQ(query_params) ==
    Format(Get(query_params, "field", INVENTION_TITLE)) \o COLON
        \o Format(Get(query_params, "value", EmptyStr))

FieldSpecificQ(query_params) ==
    Format(Get(query_params, "field", EmptyStr)) \o COLON
        \o Format(Get(query_params, "value", EmptyStr))

\* index of the first entry of rangeFilters on this field, 0 when there is none
\* mutant: an entry on the same field is never found
FirstOnField_Never(filters, field) == 0

FirstOnField(filters, field) ==
    IF \E i \in 1..Len(filters) : filters[i].field = field
    THEN CHOOSE i \in 1..Len(filters) :
            /\ filters[i].field = field
            /\ \A j \in 1..(i - 1) : filters[j].field # field
    ELSE 0

WithRange(payload, query_params) ==
    LET field == Get(query_params, "field", FILING_DATE)
        value_from == Get(query_params, "valueFrom", EmptyStr)
        value_to == Get(query_params, "valueTo", EmptyStr)
        existing == Get(payload, "rangeFilters", << >>)
        range_filter == [field |-> field, valueFrom |-> value_from,
                         valueTo |-> value_to]
        at == FirstOnField(existing, field)
    IN  IF Truthy(value_from) /\ Truthy(value_to)
        THEN SetKey(payload, "rangeFilters",
                    IF at # 0 THEN [existing EXCEPT ![at] = range_filter]
                    ELSE Append(existing, range_filter))
        ELSE payload

WithFilter(payload, query_params) ==
    LET field == Get(query_params, "field", EmptyStr)
        value == Get(query_params, "value", EmptyStr)
    IN  IF Truthy(field) /\ Truthy(value)
        THEN SetKey(payload, "filters",
                    Append(payload.filters, [name |-> field, value |-> <<value>>]))
        ELSE payload

WithFacets(payload, query_params) ==
    LET facets == Get(query_params, "facets", << >>)
    IN  IF Len(facets) > 0 THEN SetKey(payload, "facets", facets) ELSE payload

\* the handling of the specific search types
TypeSpecific(payload, search_type, query_params) ==
    CASE search_type = "boolean" ->
            SetKey(payload, "q", BooleanQ(query_params))
      [] search_type = "wildcard" ->
            SetKey(payload, "q", WildcardQ(query_params))
      [] search_type = "field_specific" ->
            SetKey(payload, "q", FieldSpecificQ(query_params))
      [] search_type = "range" -> WithRange(payload, query_params)
      [] search_type = "filtered" -> WithFilter(payload, query_params)
      [] search_type = "faceted" -> WithFacets(payload, query_params)
      [] OTHER -> payload

\* mutant: the final validation is left out
EnsureQ_Skipped(payload) == payload

\* final validation: ensure the query term exists
EnsureQ(payload) ==
    IF ~Truthy(Get(payload, "q", None)) THEN SetKey(payload, "q", STAR)
    ELSE payload

build_search_payload(search_type, query_params, params) ==
    LET pagination == Pagination(params)
        base == [fields |-> Get(params, "fields", DefaultFields),
                 filters |-> <<UtilityFilter>>,
                 pagination |-> pagination.value,
                 q |-> InitialQ(search_type, query_params),
                 sort |-> SortOf(params)]
    IN  IF pagination.kind = "raise" THEN pagination
        ELSE IF search_type = "boolean"
                /\ ~AllDicts(Get(query_params, "terms", << >>))
        THEN Raise("AttributeError")
        ELSE Return(EnsureQ(TypeSpecific(WithDateRange(base, query_params),
                                         search_type, query_params)))

(***************************************************************************)
(* Results and the upstream.                                               *)
(***************************************************************************)
\* an error string: a fixed prefix followed by the interpolated detail
Err(prefix, detail) == [prefix |-> prefix, detail |-> detail]

Failure(prefix, detail) == [success |-> FALSE, error |-> Err(prefix, detail)]

\* mutant: the response text is embedded whole
Excerpt_Whole(text) == text

\* response.text[:200]
TextLimit == 200
Excerpt(text) == SubSeq(text, 1, Min(TextLimit, Len(text)))

\* a str of n characters
Text(n) == [i \in 1..n |-> "x"]

IsResponse(o) == "status" \in DOMAIN o

\* Retry-After values an upstream sends: seconds, or text int() rejects
RetryAfterValues ==
    { <<"5">>, <<"1", "0">>, <<"-", "1">>, <<"1", ".", "5">>, <<"W", "e", "d">> }

HeaderSets ==
    { EmptyDict } \cup { [x \in {"Retry-After"} |-> v] : v \in RetryAfterValues }

\* what response.json() yields: a JSON object, a JSON array, or a ValueError
JsonBodies ==
    { [dict |-> [count |-> 1, patentFileWrapperDataBag |-> <<"rec">>]],
      [dict |-> [count |-> 0]],
      [list |-> <<"rec">>],
      [invalid |-> TRUE] }

Responses ==
    { [status |-> 429, headers |-> h, json |-> [invalid |-> TRUE], text |-> Text(0)]
        : h \in HeaderSets }
    \cup { [status |-> 200, headers |-> EmptyDict, json |-> j, text |-> Text(1)]
        : j \in JsonBodies }
    \cup { [status |-> 500, headers |-> EmptyDict, json |-> [invalid |-> TRUE],
            text |-> Text(n)] : n \in {0, TextLimit, TextLimit + 1} }
    \cup { [status |-> st, headers |-> EmptyDict, json |-> [invalid |-> TRUE],
            text |-> Text(1)] : st \in {403, 404} }

\* requests.exceptions.RequestException raised by requests.post
NetworkFailures == { [net |-> "ConnectionError"], [net |-> "Timeout"] }

VARIABLES
    pc,           \* "idle", "attempt" (make_api_request's loop), "test_post", "done"
    call,         \* the function the caller invoked and its arguments
    env,          \* what the collaborators answer: api_key, validation, csv
    frames,       \* the functions waiting for the one that is running
    steps,        \* the functions invoked so far, in order
    request,      \* url, headers and payload of the outbound request
    max_retries,
    retry_delay,
    attempt,      \* make_api_request's loop variable
    posts,        \* requests.post calls issued
    sleeps,       \* the time.sleep durations, in order
    history,      \* what the upstream answered to each POST, in order
    outcome,      \* what the call returned or raised
    inner         \* what the function that issued the requests returned or raised

vars == << pc, call, env, frames, steps, request, max_retries, retry_delay,
           attempt, posts, sleeps, history, outcome, inner >>

NoOutcome == [kind |-> "none"]
NoRequest == [url |-> "none"]

Init ==
    /\ pc = "idle"
    /\ call = [fn |-> "none"]
    /\ env = [api_key |-> EmptyStr, validation |-> "valid", csv |-> "ok"]
    /\ frames = << >>
    /\ steps = << >>
    /\ request = NoRequest
    /\ max_retries = 0
    /\ retry_delay = 0
    /\ attempt = 0
    /\ posts = 0
    /\ sleeps = << >>
    /\ history = << >>
    /\ outcome = NoOutcome
    /\ inner = NoOutcome

(***************************************************************************)
(* What a function does with the outcome of the call it was waiting for.   *)
(***************************************************************************)
\* format_results_for_csv (utils.py)
format_results_for_csv(results, answer) ==
    IF answer = "ok" THEN Return([csv |-> results]) ELSE Raise("CsvError")

\* search_patents, once make_api_request has returned or raised
SearchAfterRequest(o) ==
    IF o.kind = "raise" THEN Return(Failure("Search error: ", o.exc))
    ELSE IF ~o.value.success THEN o
    ELSE IF "dict" \notin DOMAIN o.value.data
    THEN Return(Failure("Search error: ", "AttributeError"))
    ELSE LET data == o.value.data.dict
             results == Get(data, "patentFileWrapperDataBag", << >>)
         IN  Return([success |-> TRUE,
                     data |-> [dict |-> SetKey(data, "results", results)]])

\* mutant: a failed search is passed on together with an empty CSV
ExportAfterSearch_PartialCsv(o, e) ==
    IF o.kind = "raise" THEN [outcome |-> o, steps |-> << >>]
    ELSE IF Get(o.value, "success", FALSE)
    THEN LET data == Get(o.value, "data", [dict |-> EmptyDict]).dict
             first == Get(data, "results", << >>)
             results == IF Len(first) = 0 /\ "patentFileWrapperDataBag" \in DOMAIN data
                        THEN Get(data, "patentFileWrapperDataBag", << >>)
                        ELSE first
             csv == format_results_for_csv(results, e.csv)
         IN  [outcome |-> IF csv.kind = "raise" THEN csv
                          ELSE Return([success |-> TRUE, csv_data |-> csv.value]),
              steps |-> <<"format_results_for_csv">>]
    ELSE [outcome |->
            Return([success |-> FALSE,
                    error |-> Get(o.value, "error",
                                  Err("Failed to retrieve results for export", << >>)),
                    csv_data |-> [csv |-> << >>]]),
          steps |-> << >>]

\* export_to_csv, once search_patents has returned or raised
ExportAfterSearch(o, e) ==
    IF o.kind = "raise" THEN [outcome |-> o, steps |-> << >>]
    ELSE IF Get(o.value, "success", FALSE)
    THEN LET data == Get(o.value, "data", [dict |-> EmptyDict]).dict
             first == Get(data, "results", << >>)
             results == IF Len(first) = 0 /\ "patentFileWrapperDataBag" \in DOMAIN data
                        THEN Get(data, "patentFileWrapperDataBag", << >>)
                        ELSE first
             csv == format_results_for_csv(results, e.csv)
         IN  [outcome |-> IF csv.kind = "raise" THEN csv
                          ELSE Return([success |-> TRUE, csv_data |-> csv.value]),
              steps |-> <<"format_results_for_csv">>]
    ELSE [outcome |->
            Return([success |-> FALSE,
                    error |-> Get(o.value, "error",
                                  Err("Failed to retrieve results for export", << >>))]),
          steps |-> << >>]

\* mutant: run_operation without its try/except
RunAfterHandler_NoCatch(o) == o

\* run_operation, once the handler has returned or raised
RunAfterHandler(o) ==
    IF o.kind = "raise" THEN Return(Failure("Operation error: ", o.exc))
    ELSE o

Continue(fn, o, e) ==
    CASE fn = "search_patents" -> [outcome |-> SearchAfterRequest(o), steps |-> << >>]
      [] fn = "export_to_csv" -> ExportAfterSearch(o, e)
      [] fn = "run_operation" -> [outcome |-> RunAfterHandler(o), steps |-> << >>]

RECURSIVE Unwind(_, _, _)
\* the outcome o travels up the waiting functions fs, innermost last
Unwind(fs, o, e) ==
    IF Len(fs) = 0 THEN [outcome |-> o, steps |-> << >>]
    ELSE LET here == Continue(fs[Len(fs)], o, e)
             rest == Unwind(SubSeq(fs, 1, Len(fs) - 1), here.outcome, e)
         IN  [outcome |-> rest.outcome, steps |-> here.steps \o rest.steps]

\* the running function ends with outcome o
Finish(o) ==
    LET u == Unwind(frames, o, env)
    IN  /\ pc' = "done"
        /\ outcome' = u.outcome
        /\ inner' = o
        /\ steps' = steps \o u.steps
        /\ frames' = << >>

(***************************************************************************)
(* make_api_request: one action per way an attempt of the loop can go.     *)
(***************************************************************************)
InLoop == pc = "attempt" /\ attempt < max_retries

\* mutant: attempt < max_retries in place of attempt < max_retries - 1
LastAttempt_OffByOne == attempt >= max_retries

\* not (attempt < max_retries - 1)
LastAttempt == attempt >= max_retries - 1

\* mutant: the Retry-After header is never read
RetryAfter_IgnoresHeader(response) == [ok |-> TRUE, n |-> retry_delay]

\* int(response.headers.get('Retry-After', retry_delay))
RetryAfter(response) ==
    IntOf(Get([k \in DOMAIN response.headers |-> [str |-> response.headers[k]]],
              "Retry-After", [int |-> retry_delay]))

\* time.sleep raises ValueError on a negative duration
CanSleep(secs) == secs >= 0

\* mutant: a 429 on the last attempt also sleeps and goes round the loop
ApiRateLimited_OnLastToo ==
    \E response \in Responses :
        /\ InLoop
        /\ response.status = 429
        /\ RetryAfter(response).ok /\ CanSleep(RetryAfter(response).n)
        /\ posts' = posts + 1
        /\ history' = Append(history, response)
        /\ sleeps' = Append(sleeps, RetryAfter(response).n)
        /\ attempt' = attempt + 1
        /\ UNCHANGED << pc, call, env, frames, steps, request, max_retries,
                        retry_delay, outcome, inner >>

\* 429 before the last attempt: sleep, then the next attempt
ApiRateLimited ==
    \E response \in Responses :
        /\ InLoop
        /\ response.status = 429 /\ ~LastAttempt
        /\ RetryAfter(response).ok /\ CanSleep(RetryAfter(response).n)
        /\ posts' = posts + 1
        /\ history' = Append(history, response)
        /\ sleeps' = Append(sleeps, RetryAfter(response).n)
        /\ attempt' = attempt + 1
        /\ UNCHANGED << pc, call, env, frames, steps, request, max_retries,
                        retry_delay, outcome, inner >>

\* 429 before the last attempt with a Retry-After that int() or time.sleep
\* rejects: the ValueError is no RequestException and leaves the function
ApiRetryAfterRejected ==
    \E response \in Responses :
        /\ InLoop
        /\ response.status = 429 /\ ~LastAttempt
        /\ ~(RetryAfter(response).ok /\ CanSleep(RetryAfter(response).n))
        /\ posts' = posts + 1
        /\ history' = Append(history, response)
        /\ Finish(Raise("ValueError"))
        /\ UNCHANGED << call, env, request, max_retries, retry_delay, attempt,
                        sleeps >>

\* 200 whose body parses
ApiSuccess ==
    \E response \in Responses :
        /\ InLoop
        /\ response.status = 200 /\ "invalid" \notin DOMAIN response.json
        /\ posts' = posts + 1
        /\ history' = Append(history, response)
        /\ Finish(Return([success |-> TRUE, data |-> response.json]))
        /\ UNCHANGED << call, env, request, max_retries, retry_delay, attempt,
                        sleeps >>

\* 200 whose body does not parse
ApiParseError ==
    \E response \in Responses :
        /\ InLoop
        /\ response.status = 200 /\ "invalid" \in DOMAIN response.json
        /\ posts' = posts + 1
        /\ history' = Append(history, response)
        /\ Finish(Return(Failure("Error parsing API response: ", "ValueError")))
        /\ UNCHANGED << call, env, request, max_retries, retry_delay, attempt,
                        sleeps >>

\* any other status, and 429 on the last attempt
ApiHttpError ==
    \E response \in Responses :
        /\ InLoop
        /\ response.status # 200
        /\ ~(response.status = 429 /\ ~LastAttempt)
        /\ posts' = posts + 1
        /\ history' = Append(history, response)
        /\ Finish(Return(Failure("API error: ",
                                 [status |-> response.status,
                                  text |-> Excerpt(response.text)])))
        /\ UNCHANGED << call, env, request, max_retries, retry_delay, attempt,
                        sleeps >>

\* mutant: the retry after a RequestException does not sleep
ApiNetworkRetry_NoSleep ==
    \E failure \in NetworkFailures :
        /\ InLoop
        /\ ~LastAttempt
        /\ posts' = posts + 1
        /\ history' = Append(history, failure)
        /\ attempt' = attempt + 1
        /\ UNCHANGED << pc, call, env, frames, steps, request, max_retries,
                        retry_delay, outcome, inner, sleeps >>

\* RequestException before the last attempt: sleep retry_delay, next attempt
ApiNetworkRetry ==
    \E failure \in NetworkFailures :
        /\ InLoop
        /\ ~LastAttempt
        /\ posts' = posts + 1
        /\ history' = Append(history, failure)
        /\ sleeps' = Append(sleeps, retry_delay)
        /\ attempt' = attempt + 1
        /\ UNCHANGED << pc, call, env, frames, steps, request, max_retries,
                        retry_delay, outcome, inner >>

\* mutant: the last attempt also sleeps before it gives up
ApiNetworkFinal_SleepsFirst ==
    \E failure \in NetworkFailures :
        /\ InLoop
        /\ LastAttempt
        /\ posts' = posts + 1
        /\ history' = Append(history, failure)
        /\ sleeps' = Append(sleeps, retry_delay)
        /\ Finish(Return(Failure("API request failed: ", failure.net)))
        /\ UNCHANGED << call, env, request, max_retries, retry_delay, attempt >>

\* RequestException on the last attempt
ApiNetworkFinal ==
    \E failure \in NetworkFailures :
        /\ InLoop
        /\ LastAttempt
        /\ posts' = posts + 1
        /\ history' = Append(history, failure)
        /\ Finish(Return(Failure("API request failed: ", failure.net)))
        /\ UNCHANGED << call, env, request, max_retries, retry_delay, attempt,
                        sleeps >>

\* the loop ran out without returning
ApiLoopExit ==
    /\ pc = "attempt" /\ attempt >= max_retries
    /\ Finish(Return(Failure("Maximum retries exceeded", << >>)))
    /\ UNCHANGED << call, env, request, max_retries, retry_delay, attempt,
                    posts, sleeps, history >>

(***************************************************************************)
(* test_api_connection: one action per way its single POST can go.         *)
(***************************************************************************)
TestPayload == [q |-> "applicationMetaData.applicationTypeLabelName:Utility"]

AtTestPost == pc = "test_post"

\* 200 whose body parses to a JSON object
TestSuccess ==
    \E response \in Responses :
        /\ AtTestPost
        /\ response.status = 200 /\ "dict" \in DOMAIN response.json
        /\ posts' = posts + 1
        /\ history' = Append(history, response)
        /\ Finish(Return([success |-> TRUE,
                          message |-> Err("API connection successful. Found ",
                                          Get(response.json.dict, "count", 0))]))
        /\ UNCHANGED << call, env, request, max_retries, retry_delay, attempt,
                        sleeps >>

\* 200 whose body does not parse, or parses to something without .get
TestParseError ==
    \E response \in Responses :
        /\ AtTestPost
        /\ response.status = 200 /\ "dict" \notin DOMAIN response.json
        /\ posts' = posts + 1
        /\ history' = Append(history, response)
        /\ Finish(Return([success |-> TRUE,
                          message |-> Err("API connection successful, but error parsing response",
                                          << >>)]))
        /\ UNCHANGED << call, env, request, max_retries, retry_delay, attempt,
                        sleeps >>

TestForbidden ==
    \E response \in Responses :
        /\ AtTestPost
        /\ response.status = 403
        /\ posts' = posts + 1
        /\ history' = Append(history, response)
        /\ Finish(Return(Failure("API Key is invalid or unauthorized", << >>)))
        /\ UNCHANGED << call, env, request, max_retries, retry_delay, attempt,
                        sleeps >>

TestNotFound ==
    \E response \in Responses :
        /\ AtTestPost
        /\ response.status = 404
        /\ posts' = posts + 1
        /\ history' = Append(history, response)
        /\ Finish(Return(Failure("No matching records found or invalid endpoint", << >>)))
        /\ UNCHANGED << call, env, request, max_retries, retry_delay, attempt,
                        sleeps >>

TestHttpError ==
    \E response \in Responses :
        /\ AtTestPost
        /\ response.status \notin {200, 403, 404}
        /\ posts' = posts + 1
        /\ history' = Append(history, response)
        /\ Finish(Return(Failure("API error: ",
                                 [status |-> response.status,
                                  text |-> Excerpt(response.text)])))
        /\ UNCHANGED << call, env, request, max_retries, retry_delay, attempt,
                        sleeps >>

\* requests.post raises: the function's except Exception answers
TestNetworkError ==
    \E failure \in NetworkFailures :
        /\ AtTestPost
        /\ posts' = posts + 1
        /\ history' = Append(history, failure)
        /\ Finish(Return(Failure("Connection error: ", failure.net)))
        /\ UNCHANGED << call, env, request, max_retries, retry_delay, attempt,
                        sleeps >>

(***************************************************************************)
(* The functions up to their first outbound request.  Each yields the      *)
(* functions it invoked (steps), the functions left waiting (frames) and   *)
(* next: the outcome, or the request make_api_request is called with.      *)
(***************************************************************************)
SEARCH_URL == "https://api.uspto.gov/api/v1/patent/applications/search"
DEFAULT_MAX_RETRIES == 3
DEFAULT_RETRY_DELAY == 2
EXPORT_LIMIT == 100

Ended(steps_, o) == [steps |-> steps_, frames |-> << >>, next |-> o]

RequestOf(api_key, payload) ==
    [kind |-> "request",
     request |-> [url |-> SEARCH_URL,
                  headers |-> [XAPIKEY |-> api_key, ContentType |-> "application/json"],
                  payload |-> payload]]

\* mutant: the payload is built outside the try block
search_patents_BuildUncaught(params, e) ==
    LET search_type == Get(params, "search_type", "simple")
        query_params == Get(params, "query_params", EmptyDict)
        built == build_search_payload(search_type, query_params, params)
        s1 == <<"search_patents", "validate_search_params">>
        s2 == Append(s1, "build_search_payload")
        s3 == Append(s2, "get_api_key")
    IN  IF e.validation = "raise" THEN Ended(s1, Raise("ValidationRaised"))
        ELSE IF e.validation = "invalid"
        THEN Ended(s1, Return(Failure("validation: ", "invalid")))
        ELSE IF search_type \notin SEARCH_TYPES
        THEN Ended(s1, Return(Failure("Invalid search type: ", search_type)))
        ELSE IF built.kind = "raise"
        THEN Ended(s2, built)
        ELSE IF ~Truthy(e.api_key)
        THEN Ended(s3, Return(Failure("API key is not set in config.py", << >>)))
        ELSE [steps |-> Append(s3, "make_api_request"),
              frames |-> <<"search_patents">>,
              next |-> RequestOf(e.api_key, built.value)]

search_patents(params, e) ==
    LET search_type == Get(params, "search_type", "simple")
        query_params == Get(params, "query_params", EmptyDict)
        built == build_search_payload(search_type, query_params, params)
        s1 == <<"search_patents", "validate_search_params">>
        s2 == Append(s1, "build_search_payload")
        s3 == Append(s2, "get_api_key")
    IN  IF e.validation = "raise" THEN Ended(s1, Raise("ValidationRaised"))
        ELSE IF e.validation = "invalid"
        THEN Ended(s1, Return(Failure("validation: ", "invalid")))
        ELSE IF search_type \notin SEARCH_TYPES
        THEN Ended(s1, Return(Failure("Invalid search type: ", search_type)))
        ELSE IF built.kind = "raise"
        THEN Ended(s2, Return(Failure("Error building search payload: ", built.exc)))
        ELSE IF ~Truthy(e.api_key)
        THEN Ended(s3, Return(Failure("API key is not set in config.py", << >>)))
        ELSE [steps |-> Append(s3, "make_api_request"),
              frames |-> <<"search_patents">>,
              next |-> RequestOf(e.api_key, built.value)]

\* function fn calls a function that ran as c describes: fn waits when the
\* callee is at its outbound request, and goes on with its outcome otherwise
Nested(fn, c, e) ==
    IF c.next.kind = "request"
    THEN [steps |-> <<fn>> \o c.steps, frames |-> <<fn>> \o c.frames, next |-> c.next]
    ELSE LET a == Continue(fn, c.next, e)
         IN  Ended(<<fn>> \o c.steps \o a.steps, a.outcome)

\* search_params['pagination']['limit'] = 100
WithExportLimit(search_params) ==
    IF "pagination" \in DOMAIN search_params
    THEN SetKey(search_params, "pagination",
                SetKey(search_params.pagination, "limit", EXPORT_LIMIT))
    ELSE search_params

export_to_csv(params, e) ==
    IF "results" \in DOMAIN params
    THEN LET csv == format_results_for_csv(params.results, e.csv)
         IN  Ended(<<"export_to_csv", "format_results_for_csv">>,
                   IF csv.kind = "raise" THEN csv
                   ELSE Return([success |-> TRUE, csv_data |-> csv.value]))
    ELSE IF "search_params" \in DOMAIN params
    THEN Nested("export_to_csv",
                search_patents(WithExportLimit(params.search_params), e), e)
    ELSE Ended(<<"export_to_csv">>,
               Return(Failure("No results or search parameters provided for export",
                              << >>)))

OPERATIONS == {"search", "export_csv", "test_connection"}

\* mutant: a name that is not registered is served by the search handler
run_operation_DefaultHandler(operation_type, params, e) ==
    IF operation_type = "export_csv"
    THEN Nested("run_operation", export_to_csv(params, e), e)
    ELSE IF operation_type = "test_connection"
    THEN Nested("run_operation", Ended(<< >>, Raise("TypeError")), e)
    ELSE Nested("run_operation", search_patents(params, e), e)

\* operation_type is a str and params a JSON-shaped dict, as the route passes
\* them; the two logger.info calls that come first leave no trace in the result
run_operation(operation_type, params, e) ==
    IF operation_type \notin OPERATIONS
    THEN Ended(<<"run_operation">>,
               Return(Failure("Unknown operation type: ", operation_type)))
    ELSE IF operation_type = "search"
    THEN Nested("run_operation", search_patents(params, e), e)
    ELSE IF operation_type = "export_csv"
    THEN Nested("run_operation", export_to_csv(params, e), e)
    \* test_api_connection takes no argument and is called with one
    ELSE Nested("run_operation", Ended(<< >>, Raise("TypeError")), e)

(***************************************************************************)
(* The arguments callers pass, and what the collaborators answer.          *)
(***************************************************************************)
Absent == <<"Absent">>

\* the dict of the keys of f whose value is not Absent
OptDict(f) == [k \in {x \in DOMAIN f : f[x] # Absent} |-> f[k]]

TermDicts ==
    { OptDict([field |-> a, value |-> b, operator |-> c]) :
        a \in {Absent, <<"f">>},
        b \in {EmptyStr, <<"v">>},
        c \in {Absent, None, <<"o", "r">>, <<"N", "o", "t">>} }

\* a term is a dict, or (malformed) a str
Terms == { [dict |-> d] : d \in TermDicts } \cup { [str |-> <<"x">>] }

TermLists == UNION { [1..n -> Terms] : n \in 0..MaxTerms }

\* the terms of a title search that excludes a status, the operator in the
\* letter cases callers send
ExcludingTerms ==
    { << [dict |-> [field |-> <<"t","i","t","l","e">>, value |-> <<"b","a","t","t","e","r","y">>]],
         [dict |-> [field |-> <<"s","t","a","t","u","s">>, value |-> <<"a","c","t","i","v","e">>, operator |-> op]] >> :
        op \in { NOT, <<"n", "o", "t">> } }

DateDicts ==
    { OptDict([dateFrom |-> d[1], dateTo |-> d[2]]) :
        d \in { <<Absent, Absent>>, <<<<"1">>, <<"2">>>>, <<<<"1">>, Absent>>,
                <<EmptyStr, <<"2">>>> } }

DatesOrNone == { EmptyDict, [dateFrom |-> <<"1">>, dateTo |-> <<"2">>] }

FieldValueDicts ==
    { OptDict([field |-> a, value |-> b]) :
        a \in {Absent, EmptyStr, None, <<"f">>},
        b \in {Absent, EmptyStr, None, <<"v">>} }

QueryParamsOf(search_type) ==
    CASE search_type = "simple" ->
            { OptDict([term |-> t]) @@ dd :
                t \in {Absent, EmptyStr, None, <<"a">>}, dd \in DateDicts }
      [] search_type = "boolean" ->
            { EmptyDict } \cup
            { [terms |-> ts] @@ dd : ts \in TermLists, dd \in DatesOrNone } \cup
            { [terms |-> ts] : ts \in ExcludingTerms }
      [] search_type \in {"wildcard", "field_specific", "filtered"} ->
            { fv @@ dd : fv \in FieldValueDicts, dd \in DatesOrNone }
      [] search_type = "range" ->
            { OptDict([field |-> a, valueFrom |-> b, valueTo |-> c]) @@ dd :
                a \in {Absent, <<"f">>, FILING_DATE},
                b \in {Absent, EmptyStr, <<"3">>},
                c \in {Absent, EmptyStr, <<"4">>},
                dd \in DateDicts }
      [] search_type = "faceted" ->
            { OptDict([facets |-> f]) @@ dd :
                f \in {Absent, EmptyStr, <<"f">>}, dd \in DatesOrNone }
      [] OTHER -> { EmptyDict }

PageValues ==
    { [int |-> n] : n \in 1..MaxPage } \cup { [str |-> <<"2">>], [str |-> <<"x">>] }

LimitValues == { [int |-> n] : n \in 1..MaxPage }

PagingParams ==
    { a @@ b :
        a \in { EmptyDict } \cup { [page |-> v] : v \in PageValues },
        b \in { EmptyDict } \cup { [limit |-> v] : v \in LimitValues } }

SearchTypeNames == SEARCH_TYPES \cup {"bogus"}

\* the params of search_patents
SearchParams ==
    { EmptyDict,
      [search_type |-> "simple", query_params |-> [term |-> <<"a">>]],
      [search_type |-> "simple", query_params |-> [term |-> <<"a">>],
       limit |-> [int |-> 1], pagination |-> [limit |-> 1]],
      [search_type |-> "field_specific", query_params |-> [field |-> <<"f">>]],
      [search_type |-> "boolean", query_params |-> [terms |-> << [str |-> <<"x">>] >>]],
      [search_type |-> "simple", page |-> [str |-> <<"x">>]],
      [search_type |-> "bogus"] }

\* the params of export_to_csv
ExportParams ==
    { EmptyDict, [results |-> << >>], [results |-> <<"rec">>] }
    \cup { [search_params |-> p] : p \in SearchParams }

OperationNames == OPERATIONS \cup {"bogus", "SEARCH"}

ParamsOf(operation_type) ==
    CASE operation_type = "search" -> SearchParams
      [] operation_type = "export_csv" -> ExportParams
      [] OTHER -> { EmptyDict, [search_type |-> "simple"] }

\* DevConfig.ODP_API_KEY, validate_search_params' verdict, and whether
\* format_results_for_csv returns
Envs ==
    { [api_key |-> k, validation |-> v, csv |-> c] :
        k \in {EmptyStr, <<"k">>},
        v \in {"valid", "invalid", "raise"},
        c \in {"ok", "raise"} }

RetryDelays == {0, DEFAULT_RETRY_DELAY}

(***************************************************************************)
(* The calls.                                                              *)
(***************************************************************************)
\* the state after a function ran up to its first outbound request
Entered(c, e, r) ==
    /\ env' = e
    /\ call' = c
    /\ steps' = r.steps
    /\ attempt' = 0
    /\ UNCHANGED << posts, sleeps, history, inner >>
    /\ IF r.next.kind = "request"
       THEN /\ pc' = "attempt"
            /\ frames' = r.frames
            /\ request' = r.next.request
            /\ max_retries' = DEFAULT_MAX_RETRIES
            /\ retry_delay' = DEFAULT_RETRY_DELAY
            /\ outcome' = NoOutcome
       ELSE /\ pc' = "done"
            /\ frames' = << >>
            /\ outcome' = r.next
            /\ UNCHANGED << request, max_retries, retry_delay >>

CallRunOperation ==
    \E operation_type \in OperationNames, e \in Envs :
      \E params \in ParamsOf(operation_type) :
        /\ pc = "idle"
        /\ Entered([fn |-> "run_operation", operation_type |-> operation_type,
                    params |-> params],
                   e, run_operation(operation_type, params, e))

CallSearchPatents ==
    \E params \in SearchParams, e \in Envs :
        /\ pc = "idle"
        /\ Entered([fn |-> "search_patents", params |-> params],
                   e, search_patents(params, e))

CallExportToCsv ==
    \E params \in ExportParams, e \in Envs :
        /\ pc = "idle"
        /\ Entered([fn |-> "export_to_csv", params |-> params],
                   e, export_to_csv(params, e))

\* mutant: the request is built without looking at the key
test_api_connection_NoKeyCheck(e) ==
    [steps |-> <<"test_api_connection", "get_api_key">>,
     frames |-> << >>,
     next |-> RequestOf(e.api_key, TestPayload)]

\* test_api_connection up to its POST
test_api_connection(e) ==
    IF ~Truthy(e.api_key)
    THEN Ended(<<"test_api_connection", "get_api_key">>,
               Return(Failure("API key is not set in config.py", << >>)))
    ELSE [steps |-> <<"test_api_connection", "get_api_key">>,
          frames |-> << >>,
          next |-> RequestOf(e.api_key, TestPayload)]

CallTestApiConnection ==
    \E e \in Envs :
        LET r == test_api_connection(e)
        IN  /\ pc = "idle"
            /\ env' = e
            /\ call' = [fn |-> "test_api_connection"]
            /\ steps' = r.steps
            /\ frames' = << >>
            /\ UNCHANGED << max_retries, retry_delay, attempt, posts, sleeps,
                            history, inner >>
            /\ IF r.next.kind = "request"
               THEN /\ pc' = "test_post"
                    /\ request' = r.next.request
                    /\ outcome' = NoOutcome
               ELSE /\ pc' = "done"
                    /\ outcome' = r.next
                    /\ UNCHANGED request

CallMakeApiRequest ==
    \E mr \in -1..MaxRetriesBound, rd \in RetryDelays :
        /\ pc = "idle"
        /\ call' = [fn |-> "make_api_request", max_retries |-> mr,
                    retry_delay |-> rd]
        /\ pc' = "attempt"
        /\ steps' = <<"make_api_request">>
        /\ request' = RequestOf(<<"k">>, TestPayload).request
        /\ max_retries' = mr
        /\ retry_delay' = rd
        /\ attempt' = 0
        /\ UNCHANGED << env, frames, posts, sleeps, history, outcome, inner >>

CallBuildSearchPayload ==
    \E search_type \in SearchTypeNames :
      \E query_params \in QueryParamsOf(search_type) :
        /\ pc = "idle"
        /\ call' = [fn |-> "build_search_payload", search_type |-> search_type,
                    query_params |-> query_params, params |-> EmptyDict]
        /\ pc' = "done"
        /\ steps' = <<"build_search_payload">>
        /\ outcome' = build_search_payload(search_type, query_params, EmptyDict)
        /\ UNCHANGED << env, frames, request, max_retries, retry_delay, attempt,
                        posts, sleeps, history, inner >>

\* build_search_payload called with paging options
CallBuildSearchPayloadPaged ==
    \E search_type \in SearchTypeNames, params \in PagingParams :
        /\ pc = "idle"
        /\ call' = [fn |-> "build_search_payload", search_type |-> search_type,
                    query_params |-> EmptyDict, params |-> params]
        /\ pc' = "done"
        /\ steps' = <<"build_search_payload">>
        /\ outcome' = build_search_payload(search_type, EmptyDict, params)
        /\ UNCHANGED << env, frames, request, max_retries, retry_delay, attempt,
                        posts, sleeps, history, inner >>

Next ==
    \/ CallRunOperation
    \/ CallSearchPatents
    \/ CallExportToCsv
    \/ CallTestApiConnection
    \/ CallMakeApiRequest
    \/ CallBuildSearchPayload
    \/ CallBuildSearchPayloadPaged
    \/ ApiRateLimited
    \/ ApiRetryAfterRejected
    \/ ApiSuccess
    \/ ApiParseError
    \/ ApiHttpError
    \/ ApiNetworkRetry
    \/ ApiNetworkFinal
    \/ ApiLoopExit
    \/ TestSuccess
    \/ TestParseError
    \/ TestForbidden
    \/ TestNotFound
    \/ TestHttpError
    \/ TestNetworkError

Spec == Init /\ [][Next]_vars

\* one pass of make_api_request's loop, or its exit
ApiStep ==
    \/ ApiRateLimited
    \/ ApiRetryAfterRejected
    \/ ApiSuccess
    \/ ApiParseError
    \/ ApiHttpError
    \/ ApiNetworkRetry
    \/ ApiNetworkFinal
    \/ ApiLoopExit

\* requests.post returns or raises within its 30 s timeout and time.sleep
\* returns, so a started make_api_request keeps running
FairSpec == Spec /\ WF_vars(ApiStep)

(***************************************************************************)
(* Properties.                                                             *)
(***************************************************************************)
Invoked(fn) == \E i \in 1..Len(steps) : steps[i] = fn

\* make_api_request was called, by the caller or by search_patents
InApi == Invoked("make_api_request")

Is429(o) == IsResponse(o) /\ o.status = 429
IsParsed200(o) == IsResponse(o) /\ o.status = 200 /\ "invalid" \notin DOMAIN o.json

\* the seconds a Retry-After value stands for
Seconds(v) ==
    CASE v = <<"5">> -> 5
      [] v = <<"1", "0">> -> 10
      [] OTHER -> -1

\* the sleep that follows the 429 response o
SleepAfter(o) ==
    IF "Retry-After" \in DOMAIN o.headers THEN Seconds(o.headers["Retry-After"])
    ELSE retry_delay

\* C1: with max_retries = 3, when the upstream answers 429, 429 and then 200
\* with a parseable body, make_api_request returns success with that body
\* and has slept exactly twice, each time for the Retry-After of the 429 it
\* follows when the header is present and for retry_delay otherwise.
C1_RetryThenSuccess ==
    ( /\ InApi /\ max_retries = 3
      /\ Len(history) = 3
      /\ Is429(history[1]) /\ Is429(history[2]) /\ IsParsed200(history[3]) )
    => /\ pc = "done"
       /\ inner = Return([success |-> TRUE, data |-> history[3].json])
       /\ posts = 3
       /\ Len(sleeps) = 2
       /\ \A i \in 1..2 : sleeps[i] = SleepAfter(history[i])

C1_Witness ==
    /\ call.fn = "make_api_request" /\ max_retries = 3 /\ pc = "done"
    /\ Len(history) = 3
    /\ Is429(history[1]) /\ "Retry-After" \in DOMAIN history[1].headers
    /\ Is429(history[2]) /\ "Retry-After" \notin DOMAIN history[2].headers
    /\ IsParsed200(history[3])
    /\ sleeps = <<10, retry_delay>>
    /\ retry_delay = 2

\* C2: make_api_request never issues more than max_retries POSTs (none for
\* a max_retries below 1), and when
\* the upstream has answered 429 to each of the max_retries attempts the
\* call has ended there: it returned the failure of the last 429
\* (success = false) after exactly max_retries POSTs, without sleeping again.
C2_RetryCeiling ==
    InApi =>
      /\ posts <= (IF max_retries >= 0 THEN max_retries ELSE 0)
      /\ ( /\ max_retries >= 1 /\ Len(history) = max_retries
           /\ \A i \in 1..Len(history) : Is429(history[i]) )
         => /\ pc = "done"
            /\ posts = max_retries
            /\ inner.kind = "return"
            /\ inner.value.success = FALSE
            /\ inner.value.error.prefix = "API error: "
            /\ inner.value.error.detail.status = 429
            /\ Len(sleeps) = max_retries - 1

C2_Witness ==
    /\ InApi /\ pc = "done" /\ max_retries = 3 /\ posts = 3
    /\ \A i \in 1..3 : Is429(history[i])
    /\ inner.value.success = FALSE

\* what make_api_request returns for the non-429 response o
ResultOf(o) ==
    IF o.status = 200
    THEN IF "invalid" \in DOMAIN o.json
         THEN Failure("Error parsing API response: ", "ValueError")
         ELSE [success |-> TRUE, data |-> o.json]
    ELSE Failure("API error: ",
                 [status |-> o.status,
                  text |-> [i \in 1..(IF Len(o.text) < 200 THEN Len(o.text) ELSE 200)
                              |-> o.text[i]]])

\* C3: in make_api_request a response whose status is not 429 ends the call
\* on that attempt, with no sleep and no further POST: 200 with a parseable
\* body returns success with the body, 200 with an unparseable body returns
\* the parse failure, any other status returns 'API error: <status>' with at
\* most the first 200 characters of the response text.
C3_Not429EndsCall ==
    InApi =>
      \A i \in 1..Len(history) :
        (IsResponse(history[i]) /\ history[i].status # 429)
        => /\ i = Len(history)
           /\ pc = "done"
           /\ posts = i
           /\ Len(sleeps) = i - 1
           /\ inner = Return(ResultOf(history[i]))

C3_Witness ==
    /\ InApi /\ pc = "done" /\ Len(history) = 2
    /\ Is429(history[1])
    /\ IsResponse(history[2]) /\ history[2].status = 500
    /\ Len(history[2].text) = 201
    /\ Len(inner.value.error.detail.text) = 200

IsNetworkFailure(o) == "net" \in DOMAIN o

\* C4: in make_api_request a network-level failure on an attempt that is
\* not the last is followed by one sleep of retry_delay and the next
\* attempt; on the last attempt it returns 'API request failed: <error>'
\* with no sleep.  When every attempt fails at network level the call makes
\* exactly max_retries POSTs and max_retries - 1 sleeps.
C4_NetworkFailure ==
    InApi =>
      /\ \A i \in 1..Len(history) :
           IsNetworkFailure(history[i]) =>
             IF i < max_retries
             THEN /\ Len(sleeps) >= i /\ sleeps[i] = retry_delay
                  /\ Len(history) = i => (pc = "attempt" /\ attempt = i /\ Len(sleeps) = i)
             ELSE /\ i = Len(history) /\ pc = "done"
                  /\ Len(sleeps) = i - 1
                  /\ inner = Return(Failure("API request failed: ", history[i].net))
      /\ ( /\ pc = "done"
           /\ Len(history) > 0
           /\ \A i \in 1..Len(history) : IsNetworkFailure(history[i]) )
         => (posts = max_retries /\ Len(sleeps) = max_retries - 1)

C4_Witness ==
    /\ InApi /\ pc = "done" /\ max_retries = 3 /\ posts = 3
    /\ \A i \in 1..3 : IsNetworkFailure(history[i])
    /\ sleeps = <<retry_delay, retry_delay>>
    /\ inner.value.error.prefix = "API request failed: "

RunCall == call.fn = "run_operation"

\* C5: run_operation called with a name outside {search, export_csv,
\* test_connection} returns {success: false, error: 'Unknown operation
\* type: <name>'} and invokes no handler: no validation, no payload build,
\* no outbound request.
C5_UnknownOperation ==
    (RunCall /\ call.operation_type \notin {"search", "export_csv", "test_connection"})
    => /\ pc = "done"
       /\ outcome = Return(Failure("Unknown operation type: ", call.operation_type))
       /\ steps = <<"run_operation">>
       /\ posts = 0
       /\ "payload" \notin DOMAIN request

C5_Witness ==
    /\ RunCall /\ call.operation_type = "bogus" /\ pc = "done"
    /\ outcome.value.error.prefix = "Unknown operation type: "
    /\ Truthy(env.api_key) /\ env.validation = "valid"

\* the OperationResult shape
IsOperationResult(r) ==
    /\ "success" \in DOMAIN r
    /\ r.success \in BOOLEAN
    /\ r.success => DOMAIN r \cap {"data", "csv_data", "message"} # {}
    /\ ~r.success => "error" \in DOMAIN r

\* the selected handler, run up to its first outbound request
Handler ==
    IF call.operation_type = "export_csv" THEN export_to_csv(call.params, env)
    ELSE search_patents(call.params, env)

\* C6: for every operation name and parameter bundle run_operation returns
\* an OperationResult and lets no exception escape; an exception raised
\* inside the selected handler, before or after its upstream requests, is
\* returned as {success: false, error: 'Operation error: <message>'}.
C6_NoExceptionEscapes ==
    (RunCall /\ pc = "done")
    => /\ outcome.kind = "return"
       /\ IsOperationResult(outcome.value)
       /\ ( /\ call.operation_type \in {"search", "export_csv"}
            /\ Handler.next.kind = "raise" )
          => outcome = Return(Failure("Operation error: ", Handler.next.exc))
       /\ ( /\ call.operation_type = "export_csv"
            /\ env.csv = "raise"
            /\ inner.kind = "return" /\ inner.value.success
            /\ "dict" \in DOMAIN inner.value.data )
          => outcome = Return(Failure("Operation error: ", "CsvError"))

C6_Witness ==
    /\ RunCall /\ pc = "done" /\ call.operation_type = "export_csv"
    /\ posts = 2
    /\ inner.kind = "return" /\ inner.value.success
    /\ outcome = Return(Failure("Operation error: ", "CsvError"))

\* C7: run_operation('test_connection', params) routes to the connection
\* test and returns that handler's own result: the 'API key is not set'
\* failure when no key is configured, {success: true, message: ...} when a
\* key is configured and the upstream answers 200.
C7_TestConnectionRouted ==
    (RunCall /\ call.operation_type = "test_connection" /\ pc = "done")
    => /\ Invoked("test_api_connection")
       /\ ~Truthy(env.api_key)
          => outcome = Return(Failure("API key is not set in config.py", << >>))
       /\ Truthy(env.api_key)
          => /\ posts = 1
             /\ (IsResponse(history[1]) /\ history[1].status = 200)
                => (outcome.value.success /\ "message" \in DOMAIN outcome.value)

KeyFailure == Return(Failure("API key is not set in config.py", << >>))

NoKeyCall ==
    /\ call.fn \in {"search_patents", "test_api_connection"}
    /\ ~Truthy(env.api_key)

\* C8 as stated: with no API key configured, search_patents and
\* test_api_connection return the 'API key is not set' failure and issue
\* no POST.
C8_AlwaysKeyFailure ==
    NoKeyCall => (pc = "done" /\ outcome = KeyFailure /\ posts = 0)

\* C8 amended: with no API key configured, search_patents and
\* test_api_connection issue no POST and never succeed;
\* test_api_connection returns the 'API key is not set' failure, and
\* search_patents returns it whenever the call reaches the key check, which
\* comes after validation, the search type check and the payload build.
C8_NoPostWithoutKey ==
    NoKeyCall
    => /\ pc = "done"
       /\ posts = 0
       /\ "payload" \notin DOMAIN request
       /\ ~(outcome.kind = "return" /\ outcome.value.success)
       /\ (call.fn = "test_api_connection" \/ Invoked("get_api_key"))
          => outcome = KeyFailure
       /\ ( /\ call.fn = "search_patents"
            /\ env.validation = "valid"
            /\ Get(call.params, "search_type", "simple") \in SEARCH_TYPES
            /\ build_search_payload(Get(call.params, "search_type", "simple"),
                                    Get(call.params, "query_params", EmptyDict),
                                    call.params).kind = "return" )
          => Invoked("get_api_key")

C8_Witness ==
    /\ NoKeyCall /\ call.fn = "search_patents" /\ pc = "done"
    /\ Invoked("build_search_payload") /\ Invoked("get_api_key")
    /\ outcome = KeyFailure

BuilderCall == call.fn = "build_search_payload" /\ pc = "done"

\* C9: for every search type and every combination of query parameters,
\* empty and missing ones included, the payload build_search_payload
\* returns has a non-empty q; so has every payload search_patents sends.
C9_QNeverEmpty ==
    /\ (BuilderCall /\ outcome.kind = "return")
       => /\ "q" \in DOMAIN outcome.value
          /\ outcome.value.q # None
          /\ Len(outcome.value.q) >= 1
    /\ (Invoked("search_patents") /\ "payload" \in DOMAIN request)
       => /\ request.payload.q # None
          /\ Len(request.payload.q) >= 1

C9_Witness ==
    /\ BuilderCall /\ call.search_type = "simple"
    /\ "term" \in DOMAIN call.query_params
    /\ call.query_params.term = EmptyStr
    /\ outcome.kind = "return" /\ outcome.value.q = STAR

\* C10: for a field_specific search in which field or value is missing or
\* empty, build_search_payload returns a payload whose q is the wildcard '*'.
C10_FieldSpecificWildcard ==
    ( /\ BuilderCall /\ call.search_type = "field_specific"
      /\ outcome.kind = "return"
      /\ \/ Get(call.query_params, "field", EmptyStr) = EmptyStr
         \/ Get(call.query_params, "value", EmptyStr) = EmptyStr )
    => outcome.value.q = STAR

\* a direct call of build_search_payload for a boolean search whose terms
\* are all dicts has returned
BooleanCall ==
    /\ BuilderCall /\ call.search_type = "boolean"
    /\ "terms" \in DOMAIN call.query_params
    /\ outcome.kind = "return"

TermsOf == call.query_params.terms

\* the term has a non-empty field and a non-empty value
ValidTerm(t) ==
    /\ "field" \in DOMAIN t.dict /\ t.dict.field # None /\ Len(t.dict.field) > 0
    /\ "value" \in DOMAIN t.dict /\ t.dict.value # None /\ Len(t.dict.value) > 0

FieldValue(t) == t.dict.field \o <<":">> \o t.dict.value

HasOperator(t) == "operator" \in DOMAIN t.dict /\ t.dict.operator # None

\* the operator word of a term: its operator in upper case, AND without one
OperatorWord(t) ==
    IF ~HasOperator(t) THEN <<"A", "N", "D">>
    ELSE CASE t.dict.operator = <<"o", "r">> -> <<"O", "R">>
           [] t.dict.operator \in { <<"N", "o", "t">>, <<"n", "o", "t">>,
                                    <<"N", "O", "T">> } -> <<"N", "O", "T">>
           [] OTHER -> t.dict.operator

\* C11: in a boolean search every valid term after the first is emitted as
\* 'OPERATOR field:value', OPERATOR being the term's operator in upper case
\* and 'AND' when the term carries no operator.
C11_OperatorBeforeLaterTerms ==
    (BooleanCall /\ Len(TermsOf) >= 2 /\ \A i \in 1..Len(TermsOf) : ValidTerm(TermsOf[i]))
    => outcome.value.q =
         Join(<<" ">>,
              [i \in 1..Len(TermsOf) |->
                 IF i = 1 THEN FieldValue(TermsOf[1])
                 ELSE OperatorWord(TermsOf[i]) \o <<" ">> \o FieldValue(TermsOf[i])])

IsNot(t) == HasOperator(t) /\ OperatorWord(t) = <<"N", "O", "T">>

NotPiece(t) == <<"N", "O", "T", " ">> \o FieldValue(t)

\* the last n characters of s
Suffix(s, n) == SubSeq(s, Len(s) - n + 1, Len(s))

\* C12: in a boolean search a non-first term whose operator is NOT, in any
\* letter case, is emitted as 'NOT field:value', and the pieces are joined
\* by single spaces: the terms [{title, battery}, {status, active, NOT}]
\* give q = 'title:battery NOT status:active'.
C12_NotTerm ==
    BooleanCall =>
      /\ \A i \in 2..Len(TermsOf) :
           ( /\ i = Len(TermsOf)
             /\ ValidTerm(TermsOf[i]) /\ IsNot(TermsOf[i]) )
           => LET q == outcome.value.q
                  piece == NotPiece(TermsOf[i])
              IN  /\ Len(q) >= Len(piece)
                  /\ Suffix(q, Len(piece)) = piece
                  /\ Len(q) > Len(piece)
                     => /\ q[Len(q) - Len(piece)] = " "
                        /\ q[Len(q) - Len(piece) - 1] # " "
      /\ TermsOf \in ExcludingTerms
         => outcome.value.q =
              <<"t","i","t","l","e",":","b","a","t","t","e","r","y"," ",
                "N","O","T"," ",
                "s","t","a","t","u","s",":","a","c","t","i","v","e">>

C12_Witness ==
    /\ BooleanCall /\ TermsOf \in ExcludingTerms
    /\ TermsOf[2].dict.operator = <<"n", "o", "t">>
    /\ Len(outcome.value.q) = 31

\* a direct call of build_search_payload was given integers page >= 1 and
\* limit >= 1
PagedCall ==
    /\ BuilderCall
    /\ "page" \in DOMAIN call.params /\ "int" \in DOMAIN call.params.page
    /\ "limit" \in DOMAIN call.params /\ "int" \in DOMAIN call.params.limit
    /\ call.params.page.int >= 1 /\ call.params.limit.int >= 1

\* C13: for every page >= 1 and limit >= 1 passed to build_search_payload
\* the payload's pagination.offset is (page-1)*limit and its
\* pagination.limit is the caller's limit.
C13_Offset ==
    PagedCall =>
      /\ outcome.kind = "return"
      /\ outcome.value.pagination.offset =
           (call.params.page.int - 1) * call.params.limit.int
      /\ outcome.value.pagination.limit = call.params.limit.int

C13_Witness ==
    /\ PagedCall
    /\ call.params.page.int = MaxPage /\ call.params.limit.int = MaxPage
    /\ outcome.kind = "return"
    /\ outcome.value.pagination = [offset |-> (MaxPage - 1) * MaxPage, limit |-> MaxPage]

\* a direct call of build_search_payload has returned a payload
Built == BuilderCall /\ outcome.kind = "return"

NonEmpty(d, k) == k \in DOMAIN d /\ d[k] # <<"None">> /\ Len(d[k]) > 0

\* dateFrom and dateTo of the call are both non-empty
HasDates ==
    NonEmpty(call.query_params, "dateFrom") /\ NonEmpty(call.query_params, "dateTo")

\* the call is a range search with non-empty valueFrom and valueTo
HasRange ==
    /\ call.search_type = "range"
    /\ NonEmpty(call.query_params, "valueFrom")
    /\ NonEmpty(call.query_params, "valueTo")

FilingDateField ==
    <<"a","p","p","l","i","c","a","t","i","o","n","M","e","t","a","D","a","t","a",
      ".","f","i","l","i","n","g","D","a","t","e">>

\* the field of a range search; the filing date when none is given
RangeField ==
    IF "field" \in DOMAIN call.query_params THEN call.query_params.field
    ELSE FilingDateField

DateEntry ==
    [field |-> FilingDateField, valueFrom |-> call.query_params.dateFrom,
     valueTo |-> call.query_params.dateTo]

RangeEntry ==
    [field |-> RangeField, valueFrom |-> call.query_params.valueFrom,
     valueTo |-> call.query_params.valueTo]

RangeFilters ==
    IF "rangeFilters" \in DOMAIN outcome.value THEN outcome.value.rangeFilters
    ELSE << >>

\* C14: a range search on the field of the entry already in rangeFilters
\* (the filing-date entry made from dateFrom/dateTo) replaces that entry at
\* its index: rangeFilters keeps its length 1, holds one entry for the
\* field, and the entry carries the range search's valueFrom/valueTo.
C14_RangeReplacesInPlace ==
    (Built /\ HasDates /\ HasRange /\ RangeField = FilingDateField)
    => /\ Len(RangeFilters) = 1
       /\ RangeFilters[1] = RangeEntry
       /\ Cardinality({ i \in 1..Len(RangeFilters) :
                          RangeFilters[i].field = FilingDateField }) = 1

C14_Witness ==
    /\ Built /\ HasDates /\ HasRange
    /\ "field" \in DOMAIN call.query_params /\ RangeField = FilingDateField
    /\ RangeFilters = << [field |-> FilingDateField, valueFrom |-> <<"3">>,
                          valueTo |-> <<"4">>] >>
    /\ DateEntry # RangeEntry

\* C15 as stated: for every search type non-empty dateFrom and dateTo put a
\* filing-date entry with those bounds in rangeFilters; a range search on
\* another field then gives two entries, date first and range second; an
\* empty date bound adds no date entry.
C15_DateEntryAlways ==
    Built =>
      /\ HasDates => \E i \in 1..Len(RangeFilters) : RangeFilters[i] = DateEntry
      /\ (HasDates /\ HasRange /\ RangeField # FilingDateField)
         => RangeFilters = << DateEntry, RangeEntry >>
      /\ ~HasDates => RangeFilters = IF HasRange THEN << RangeEntry >> ELSE << >>

\* C15: as above, except that a range search on the filing-date field with
\* non-empty valueFrom/valueTo leaves only its own entry, in the place of
\* the date entry.
C15_DateEntry ==
    Built =>
      /\ (HasDates /\ ~(HasRange /\ RangeField = FilingDateField))
         => \E i \in 1..Len(RangeFilters) : RangeFilters[i] = DateEntry
      /\ (HasDates /\ HasRange /\ RangeField = FilingDateField)
         => RangeFilters = << RangeEntry >>
      /\ (HasDates /\ HasRange /\ RangeField # FilingDateField)
         => RangeFilters = << DateEntry, RangeEntry >>
      /\ (HasDates /\ ~HasRange) => RangeFilters = << DateEntry >>
      /\ ~HasDates => RangeFilters = IF HasRange THEN << RangeEntry >> ELSE << >>

C15_Witness ==
    /\ Built /\ HasDates /\ HasRange /\ RangeField = <<"f">>
    /\ Len(RangeFilters) = 2
    /\ RangeFilters[1].field = FilingDateField /\ RangeFilters[2].field = <<"f">>

\* export_to_csv was called with search_params and no results, and its
\* search has built the upstream request
ExportSearchRequest ==
    /\ call.fn = "export_to_csv"
    /\ "search_params" \in DOMAIN call.params
    /\ "results" \notin DOMAIN call.params
    /\ "payload" \in DOMAIN request

\* C16: the upstream search request triggered by export_to_csv called with
\* search_params carries pagination.limit = 100, whatever limit the
\* caller's search_params held.
C16_ExportLimit ==
    ExportSearchRequest => request.payload.pagination.limit = 100

\* export_to_csv was called with search_params and no results, and the call
\* is over
ExportSearchDone ==
    /\ call.fn = "export_to_csv"
    /\ "search_params" \in DOMAIN call.params
    /\ "results" \notin DOMAIN call.params
    /\ pc = "done"

\* what the search run inside export_to_csv came to: its own early answer,
\* or its answer to what make_api_request returned or raised
SearchInExport ==
    IF InApi THEN SearchAfterRequest(inner)
    ELSE search_patents(WithExportLimit(call.params.search_params), env).next

\* a result with success=false carries an error and no payload field
BareFailure(r) ==
    /\ "error" \in DOMAIN r
    /\ DOMAIN r \cap {"data", "csv_data", "message"} = {}

\* C17: when the search run inside export_to_csv fails, export_to_csv
\* returns {success: false} with the search's error and no csv_data; and
\* every result with success=false returned by run_operation,
\* search_patents, export_to_csv or make_api_request carries an error and
\* none of data, csv_data, message.
C17_FailurePassthrough ==
    /\ (ExportSearchDone /\ SearchInExport.kind = "return"
                         /\ ~SearchInExport.value.success)
       => /\ outcome.kind = "return"
          /\ outcome.value = [success |-> FALSE,
                              error |-> SearchInExport.value.error]
    /\ ( /\ call.fn \in {"run_operation", "search_patents", "export_to_csv",
                         "make_api_request"}
         /\ pc = "done" /\ outcome.kind = "return" /\ ~outcome.value.success )
       => BareFailure(outcome.value)
    /\ (InApi /\ pc = "done" /\ inner.kind = "return" /\ ~inner.value.success)
       => BareFailure(inner.value)

C17_Witness ==
    /\ ExportSearchDone /\ InApi
    /\ inner.kind = "return" /\ ~inner.value.success
    /\ inner.value.error.prefix = "API error: "
    /\ outcome = Return([success |-> FALSE, error |-> inner.value.error])

\* the steps of search_patents, in the order the claim gives them
SearchOrder ==
    <<"search_patents", "validate_search_params", "build_search_payload",
      "get_api_key", "make_api_request">>

\* the steps of search_patents taken so far
SearchSteps ==
    LET OfSearch(x) == \E i \in 1..Len(SearchOrder) : SearchOrder[i] = x
    IN  SelectSeq(steps, OfSearch)

\* search_patents itself was called
SearchCall == call.fn = "search_patents"

KnownType(p) ==
    "search_type" \notin DOMAIN p
    \/ p.search_type \in {"simple", "boolean", "wildcard", "field_specific",
                          "range", "filtered", "faceted"}

\* the params make build_search_payload raise: a page that is no number, or
\* a boolean term that is no record
BreaksBuild(p) ==
    \/ /\ "page" \in DOMAIN p /\ "str" \in DOMAIN p.page
       /\ \E i \in 1..Len(p.page.str) :
            p.page.str[i] \notin {"0","1","2","3","4","5","6","7","8","9"}
    \/ /\ "search_type" \in DOMAIN p /\ p.search_type = "boolean"
       /\ "query_params" \in DOMAIN p /\ "terms" \in DOMAIN p.query_params
       /\ \E i \in 1..Len(p.query_params.terms) :
            "str" \in DOMAIN p.query_params.terms[i]

\* the call is over with {success: false, error: ...} of the given kind,
\* after the given steps, and no request was built or sent
RefusedWith(prefix, done) ==
    /\ pc = "done"
    /\ outcome.kind = "return"
    /\ ~outcome.value.success
    /\ DOMAIN outcome.value = {"success", "error"}
    /\ outcome.value.error.prefix = prefix
    /\ steps = done
    /\ posts = 0
    /\ "payload" \notin DOMAIN request

\* C18: search_patents validates, checks the search type, builds the payload,
\* checks the API key and only then POSTs; a request that fails validation,
\* names an unknown search type or makes build_search_payload raise is
\* answered with {success: false, error: ...} before any outbound request.
C18_RefusedBeforeRequest ==
    /\ Invoked("search_patents")
       => /\ SearchSteps = SubSeq(SearchOrder, 1, Len(SearchSteps))
          /\ (posts > 0 \/ "payload" \in DOMAIN request) => SearchSteps = SearchOrder
    /\ (SearchCall /\ env.validation = "invalid")
       => RefusedWith("validation: ", SubSeq(SearchOrder, 1, 2))
    /\ (SearchCall /\ env.validation = "valid" /\ ~KnownType(call.params))
       => RefusedWith("Invalid search type: ", SubSeq(SearchOrder, 1, 2))
    /\ (SearchCall /\ env.validation = "valid" /\ KnownType(call.params)
                   /\ BreaksBuild(call.params))
       => RefusedWith("Error building search payload: ", SubSeq(SearchOrder, 1, 3))

C18_Witness ==
    /\ SearchCall /\ env.validation = "valid" /\ Len(env.api_key) > 0
    /\ KnownType(call.params) /\ BreaksBuild(call.params)
    /\ "terms" \in DOMAIN Get(call.params, "query_params", EmptyDict)
    /\ RefusedWith("Error building search payload: ", SubSeq(SearchOrder, 1, 3))

\* the list positions of the valid terms
ValidPositions == { i \in 1..Len(TermsOf) : ValidTerm(TermsOf[i]) }

\* s starts with the characters of p
StartsWith(s, p) == Len(s) >= Len(p) /\ SubSeq(s, 1, Len(p)) = p

\* C19: in a boolean search terms missing field or value are skipped; when a
\* valid term remains q starts with the bare 'field:value' of the first
\* valid term, with no operator word in front, also when invalid terms
\* precede it in the list; with no valid term q is '*'.
C19_FirstValidTermBare ==
    BooleanCall =>
      IF ValidPositions = {} THEN outcome.value.q = <<"*">>
      ELSE LET first == CHOOSE i \in ValidPositions :
                            \A j \in ValidPositions : i <= j
           IN  StartsWith(outcome.value.q, FieldValue(TermsOf[first]))

\* make_api_request runs, or ran, with max_retries >= 1
ApiCall == InApi /\ max_retries >= 1

\* the POSTs and sleeps of a make_api_request call stay within its budget
WithinRetryBudget ==
    ApiCall =>
      /\ posts <= max_retries
      /\ Len(sleeps) <= max_retries - 1
      /\ pc = "attempt" => (Len(sleeps) = posts /\ posts < max_retries)
      /\ pc = "done" => (posts >= 1 /\ Len(sleeps) < posts)

\* a sleep leaves the call in its loop with an attempt still to make
SleepThenPost ==
    (ApiCall /\ sleeps' # sleeps) => (pc' = "attempt" /\ attempt' < max_retries)

\* C20: for every sequence of upstream outcomes and every max_retries >= 1,
\* make_api_request terminates having issued at least 1 and at most
\* max_retries POSTs and at most max_retries-1 sleeps, and no sleep follows
\* the last POST.
C20_BoundedRetries ==
    /\ []WithinRetryBudget
    /\ [][SleepThenPost]_vars
    /\ (ApiCall ~> pc = "done")

C20_Witness ==
    /\ call.fn = "make_api_request" /\ max_retries = 3
    /\ pc = "done"
    /\ posts = 3 /\ Len(sleeps) = 2
    /\ Is429(history[1]) /\ IsNetworkFailure(history[2]) /\ IsResponse(history[3])
    /\ history[3].status = 200

\* the failure returned after the loop of make_api_request
RetriesExceeded == [success |-> FALSE,
                    error |-> [prefix |-> "Maximum retries exceeded", detail |-> << >>]]

\* make_api_request is over and this is how it ended
ApiEnded == InApi /\ pc = "done"

\* C21: for every max_retries >= 1 and every sequence of upstream outcomes
\* make_api_request never returns 'Maximum retries exceeded': the loop never
\* runs out, each call ends inside an attempt.  That failure is returned
\* only when max_retries <= 0, and then no POST is issued.
C21_RetriesExceededOnlyWithoutAttempts ==
    /\ (InApi /\ max_retries >= 1)
       => /\ attempt < max_retries
          /\ pc = "done" => (posts = attempt + 1 /\ inner # Return(RetriesExceeded))
    /\ (ApiEnded /\ max_retries <= 0)
       => (inner = Return(RetriesExceeded) /\ posts = 0 /\ history = << >>)
    /\ (ApiEnded /\ inner = Return(RetriesExceeded))
       => (max_retries <= 0 /\ posts = 0)

C21_Witness ==
    /\ ApiEnded /\ call.fn = "make_api_request" /\ max_retries = 2
    /\ posts = 2 /\ Is429(history[1]) /\ Is429(history[2])
    /\ inner.kind = "return" /\ inner.value.error.prefix = "API error: "

\* C22: make_api_request always returns a {success, data|error} value and
\* never raises to its caller, for every upstream response, including a 429
\* whose Retry-After header is present but is no integer number of seconds.
C22_NeverRaises ==
    ApiEnded =>
      /\ inner.kind = "return"
      /\ "success" \in DOMAIN inner.value
      /\ IF inner.value.success THEN "data" \in DOMAIN inner.value
         ELSE "error" \in DOMAIN inner.value

====
